---- MODULE Spec2Model ----
(***************************************************************************)
(* Model of the helix alignment and annotation core:                       *)
(*   crates/helix-core/src/alignment.rs    smith_waterman_local,           *)
(*                                         align_both_strands              *)
(*   crates/helix-core/src/operations.rs   complement_base,                *)
(*                                         reverse_complement              *)
(*   crates/helix-components/src/annotate.rs  annotate, resolve_overlaps   *)
(*                                                                         *)
(* Byte strings are sequences of byte values, Rust Strings are sequences   *)
(* of code points, Option<T> is a sequence of length 0 (None) or 1 (Some). *)
(***************************************************************************)
EXTENDS Integers, Sequences, FiniteSets, TLC

VARIABLES
    query,        \* &[u8] handed to the aligner
    target,       \* &[u8] handed to the aligner / target.as_bytes() of annotate
    params,       \* ScoringParams
    band_width,   \* Option<usize>
    min_score,    \* i32
    unbanded,     \* Option<AlignmentResult> of the call with band_width = None
    result,       \* Option<AlignmentResult> of the call with band_width
    stranded,     \* Option<(AlignmentResult, bool)> of align_both_strands
    components,   \* &[Component] handed to annotate
    config,       \* the thresholds of AnnotationConfig (scoring, band_width, min_score above)
    is_circular,  \* the _is_circular argument of annotate
    hits,         \* Vec<AnnotationHit> returned by annotate
    candidates,   \* Vec<AnnotationHit> annotate hands to resolve_overlaps
    rc_target,    \* rc_bytes of align_both_strands
    store,        \* the rows of the components table
    rowid_seq,    \* the largest id the table has ever assigned (AUTOINCREMENT)
    db_call,      \* the last call on the component store and what it returned
    pc            \* which calls have returned

vars == <<query, target, params, band_width, min_score, unbanded, result,
          stranded, components, config, is_circular, hits, candidates,
          rc_target, store, rowid_seq, db_call, pc>>

-----------------------------------------------------------------------------
(* Option<T> *)

None == <<>>

Some(x) == <<x>>

IsSome(o) == Len(o) = 1

Unwrap(o) == o[1]

Max2(a, b) == IF a >= b THEN a ELSE b

Min2(a, b) == IF a <= b THEN a ELSE b

-----------------------------------------------------------------------------
(* Bytes and characters *)

chA == 65
chC == 67
chG == 71
chT == 84

\* a comparison of bytes as they are, without case folding
to_ascii_uppercase_Identity(b) == b

\* u8::to_ascii_uppercase and char::to_ascii_uppercase: b'a'..=b'z' lose bit 5
to_ascii_uppercase(b) == IF b >= 97 /\ b <= 122 THEN b - 32 ELSE b

\* the bytes of one char of a String (UTF-8, code points below U+0800)
Utf8(cp) == IF cp < 128 THEN <<cp>> ELSE <<192 + (cp \div 64), 128 + (cp % 64)>>

RECURSIVE StrBytes(_)
\* String::bytes / str::as_bytes of a String given as its chars
StrBytes(s) == IF s = <<>> THEN <<>> ELSE Utf8(Head(s)) \o StrBytes(Tail(s))

\* complement_base: the table is keyed on the upper-cased char, and the
\* fall-through arm returns the upper-cased char
complement_base(base) ==
    LET u == to_ascii_uppercase(base) IN
    CASE u = 65 -> 84      \* 'A' => 'T'
      [] u = 84 -> 65      \* 'T' => 'A'
      [] u = 71 -> 67      \* 'G' => 'C'
      [] u = 67 -> 71      \* 'C' => 'G'
      [] u = 82 -> 89      \* 'R' => 'Y'
      [] u = 89 -> 82      \* 'Y' => 'R'
      [] u = 83 -> 83      \* 'S' => 'S'
      [] u = 87 -> 87      \* 'W' => 'W'
      [] u = 75 -> 77      \* 'K' => 'M'
      [] u = 77 -> 75      \* 'M' => 'K'
      [] u = 66 -> 86      \* 'B' => 'V'
      [] u = 86 -> 66      \* 'V' => 'B'
      [] u = 68 -> 72      \* 'D' => 'H'
      [] u = 72 -> 68      \* 'H' => 'D'
      [] u = 78 -> 78      \* 'N' => 'N'
      [] OTHER -> u

\* reverse_complement: seq.chars().rev().map(complement_base).collect()
reverse_complement(s) ==
    [k \in 1..Len(s) |-> complement_base(s[Len(s) + 1 - k])]

-----------------------------------------------------------------------------
(* ScoringParams *)

DefaultScoring ==
    [match_score |-> 2, mismatch_score |-> -3, gap_open |-> -5, gap_extend |-> -2]

\* i32::MIN / 2
neg_inf == -1073741824

-----------------------------------------------------------------------------
(* smith_waterman_local *)

\* TraceOp
TraceNone == "None"
TraceMatch == "Match"
TraceGapInQuery == "GapInQuery"
TraceGapInTarget == "GapInTarget"

\* idx = |i, j| i * cols + j
idx(cols, i, j) == i * cols + j

\* the matrices and the running maximum before the first row is filled
FillInit(n, m) ==
    LET cells == 0..((n + 1) * (m + 1) - 1) IN
    [h |-> [k \in cells |-> 0],
     e |-> [k \in cells |-> neg_inf],
     f |-> [k \in cells |-> neg_inf],
     trace |-> [k \in cells |-> TraceNone],
     max_score |-> 0, max_i |-> 0, max_j |-> 0]

\* BandCenter without the scaling by the ratio of the lengths
BandCenter_Unscaled(n, m, i) == i

\* center of the band in row i
BandCenter(n, m, i) == IF m >= n THEN (i * m) \div n ELSE i

\* BandRange with the band's last column left out (hi = center + w)
BandRange_ExclusiveHi(n, m, bw, i) ==
    IF IsSome(bw)
    THEN [lo |-> Max2(BandCenter(n, m, i) - Unwrap(bw), 1),
          hi |-> Min2(BandCenter(n, m, i) + Unwrap(bw), m + 1)]
    ELSE [lo |-> 1, hi |-> m + 1]

\* BandRange with only the center column computed when there is no band
BandRange_NoneAsDiagonal(n, m, bw, i) ==
    IF IsSome(bw)
    THEN [lo |-> Max2(BandCenter(n, m, i) - Unwrap(bw), 1),
          hi |-> Min2(BandCenter(n, m, i) + Unwrap(bw) + 1, m + 1)]
    ELSE [lo |-> Max2(BandCenter(n, m, i), 1),
          hi |-> Min2(BandCenter(n, m, i) + 1, m + 1)]

\* (j_start, j_end) of row i: the columns j_start..j_end-1 are computed
BandRange(n, m, bw, i) ==
    IF IsSome(bw)
    THEN LET center == BandCenter(n, m, i)
             w == Unwrap(bw)
         IN  [lo |-> Max2(center - w, 1), hi |-> Min2(center + w + 1, m + 1)]
    ELSE [lo |-> 1, hi |-> m + 1]

\* FillCell with a gap's first column charged gap_extend only
FillCell_NoGapOpen(q, t, p, st, i, j) ==
    LET cols == Len(t) + 1
        match_mismatch ==
            IF to_ascii_uppercase(q[i]) = to_ascii_uppercase(t[j])
            THEN p.match_score ELSE p.mismatch_score
        e_open == st.h[idx(cols, i, j - 1)] + p.gap_extend
        e_ext == st.e[idx(cols, i, j - 1)] + p.gap_extend
        e_val == Max2(Max2(e_open, e_ext), 0)
        f_open == st.h[idx(cols, i - 1, j)] + p.gap_extend
        f_ext == st.f[idx(cols, i - 1, j)] + p.gap_extend
        f_val == Max2(Max2(f_open, f_ext), 0)
        diag == st.h[idx(cols, i - 1, j - 1)] + match_mismatch
        h_val == Max2(Max2(Max2(diag, e_val), f_val), 0)
        op == IF h_val = 0 THEN TraceNone
              ELSE IF h_val = diag THEN TraceMatch
              ELSE IF h_val = f_val THEN TraceGapInTarget
              ELSE TraceGapInQuery
        better == h_val > st.max_score
    IN  [h |-> [st.h EXCEPT ![idx(cols, i, j)] = h_val],
         e |-> [st.e EXCEPT ![idx(cols, i, j)] = e_val],
         f |-> [st.f EXCEPT ![idx(cols, i, j)] = f_val],
         trace |-> [st.trace EXCEPT ![idx(cols, i, j)] = op],
         max_score |-> IF better THEN h_val ELSE st.max_score,
         max_i |-> IF better THEN i ELSE st.max_i,
         max_j |-> IF better THEN j ELSE st.max_j]

\* FillCell with the direction of a tie chosen gap-in-target first
FillCell_GapBeforeDiagonal(q, t, p, st, i, j) ==
    LET cols == Len(t) + 1
        match_mismatch ==
            IF to_ascii_uppercase(q[i]) = to_ascii_uppercase(t[j])
            THEN p.match_score ELSE p.mismatch_score
        e_open == st.h[idx(cols, i, j - 1)] + p.gap_open + p.gap_extend
        e_ext == st.e[idx(cols, i, j - 1)] + p.gap_extend
        e_val == Max2(Max2(e_open, e_ext), 0)
        f_open == st.h[idx(cols, i - 1, j)] + p.gap_open + p.gap_extend
        f_ext == st.f[idx(cols, i - 1, j)] + p.gap_extend
        f_val == Max2(Max2(f_open, f_ext), 0)
        diag == st.h[idx(cols, i - 1, j - 1)] + match_mismatch
        h_val == Max2(Max2(Max2(diag, e_val), f_val), 0)
        op == IF h_val = 0 THEN TraceNone
              ELSE IF h_val = f_val THEN TraceGapInTarget
              ELSE IF h_val = diag THEN TraceMatch
              ELSE TraceGapInQuery
        better == h_val > st.max_score
    IN  [h |-> [st.h EXCEPT ![idx(cols, i, j)] = h_val],
         e |-> [st.e EXCEPT ![idx(cols, i, j)] = e_val],
         f |-> [st.f EXCEPT ![idx(cols, i, j)] = f_val],
         trace |-> [st.trace EXCEPT ![idx(cols, i, j)] = op],
         max_score |-> IF better THEN h_val ELSE st.max_score,
         max_i |-> IF better THEN i ELSE st.max_i,
         max_j |-> IF better THEN j ELSE st.max_j]

\* FillCell with the maximum replaced on an equal score too (>=)
FillCell_ReplaceOnTie(q, t, p, st, i, j) ==
    LET cols == Len(t) + 1
        match_mismatch ==
            IF to_ascii_uppercase(q[i]) = to_ascii_uppercase(t[j])
            THEN p.match_score ELSE p.mismatch_score
        e_open == st.h[idx(cols, i, j - 1)] + p.gap_open + p.gap_extend
        e_ext == st.e[idx(cols, i, j - 1)] + p.gap_extend
        e_val == Max2(Max2(e_open, e_ext), 0)
        f_open == st.h[idx(cols, i - 1, j)] + p.gap_open + p.gap_extend
        f_ext == st.f[idx(cols, i - 1, j)] + p.gap_extend
        f_val == Max2(Max2(f_open, f_ext), 0)
        diag == st.h[idx(cols, i - 1, j - 1)] + match_mismatch
        h_val == Max2(Max2(Max2(diag, e_val), f_val), 0)
        op == IF h_val = 0 THEN TraceNone
              ELSE IF h_val = diag THEN TraceMatch
              ELSE IF h_val = f_val THEN TraceGapInTarget
              ELSE TraceGapInQuery
        better == h_val >= st.max_score
    IN  [h |-> [st.h EXCEPT ![idx(cols, i, j)] = h_val],
         e |-> [st.e EXCEPT ![idx(cols, i, j)] = e_val],
         f |-> [st.f EXCEPT ![idx(cols, i, j)] = f_val],
         trace |-> [st.trace EXCEPT ![idx(cols, i, j)] = op],
         max_score |-> IF better THEN h_val ELSE st.max_score,
         max_i |-> IF better THEN i ELSE st.max_i,
         max_j |-> IF better THEN j ELSE st.max_j]

\* the body of the inner loop: cell (i, j)
FillCell(q, t, p, st, i, j) ==
    LET cols == Len(t) + 1
        q_base == q[i]
        t_base == t[j]
        match_mismatch ==
            IF to_ascii_uppercase(q_base) = to_ascii_uppercase(t_base)
            THEN p.match_score ELSE p.mismatch_score
        e_open == st.h[idx(cols, i, j - 1)] + p.gap_open + p.gap_extend
        e_ext == st.e[idx(cols, i, j - 1)] + p.gap_extend
        e_val == Max2(Max2(e_open, e_ext), 0)
        f_open == st.h[idx(cols, i - 1, j)] + p.gap_open + p.gap_extend
        f_ext == st.f[idx(cols, i - 1, j)] + p.gap_extend
        f_val == Max2(Max2(f_open, f_ext), 0)
        diag == st.h[idx(cols, i - 1, j - 1)] + match_mismatch
        h_val == Max2(Max2(Max2(diag, e_val), f_val), 0)
        op == IF h_val = 0 THEN TraceNone
              ELSE IF h_val = diag THEN TraceMatch
              ELSE IF h_val = f_val THEN TraceGapInTarget
              ELSE TraceGapInQuery
        better == h_val > st.max_score
    IN  [h |-> [st.h EXCEPT ![idx(cols, i, j)] = h_val],
         e |-> [st.e EXCEPT ![idx(cols, i, j)] = e_val],
         f |-> [st.f EXCEPT ![idx(cols, i, j)] = f_val],
         trace |-> [st.trace EXCEPT ![idx(cols, i, j)] = op],
         max_score |-> IF better THEN h_val ELSE st.max_score,
         max_i |-> IF better THEN i ELSE st.max_i,
         max_j |-> IF better THEN j ELSE st.max_j]

RECURSIVE FillRow(_, _, _, _, _, _, _)
\* for j in j..j_end
FillRow(q, t, p, st, i, j, j_end) ==
    IF j >= j_end THEN st
    ELSE FillRow(q, t, p, FillCell(q, t, p, st, i, j), i, j + 1, j_end)

RECURSIVE FillRows(_, _, _, _, _, _)
\* for i in i..rows
FillRows(q, t, p, bw, st, i) ==
    IF i >= Len(q) + 1 THEN st
    ELSE LET r == BandRange(Len(q), Len(t), bw, i) IN
         FillRows(q, t, p, bw, FillRow(q, t, p, st, i, r.lo, r.hi), i + 1)

\* the matrices, the trace and the maximum after the fill loops
Fill(q, t, p, bw) == FillRows(q, t, p, bw, FillInit(Len(q), Len(t)), 1)

RECURSIVE TracebackLoop(_, _, _, _)
\* the while loop of the traceback; path lists the cells it visited
TracebackLoop(q, t, st, tb) ==
    LET cols == Len(t) + 1
        ci == tb.ci
        cj == tb.cj
    IN  IF ~(ci > 0 /\ cj > 0 /\ st.h[idx(cols, ci, cj)] > 0) THEN tb
        ELSE LET op == st.trace[idx(cols, ci, cj)]
                 here == Append(tb.path, <<ci, cj>>)
             IN  IF op = TraceMatch
                 THEN LET same == to_ascii_uppercase(q[ci]) = to_ascii_uppercase(t[cj]) IN
                      TracebackLoop(q, t, st,
                          [tb EXCEPT !.matches = IF same THEN @ + 1 ELSE @,
                                     !.mismatches = IF same THEN @ ELSE @ + 1,
                                     !.ci = ci - 1, !.cj = cj - 1, !.path = here])
                 ELSE IF op = TraceGapInTarget
                 THEN TracebackLoop(q, t, st,
                          [tb EXCEPT !.gaps = @ + 1, !.ci = ci - 1, !.path = here])
                 ELSE IF op = TraceGapInQuery
                 THEN TracebackLoop(q, t, st,
                          [tb EXCEPT !.gaps = @ + 1, !.cj = cj - 1, !.path = here])
                 ELSE tb

\* the traceback started from the last cell of the matrix
Traceback_FromCorner(q, t, st) ==
    TracebackLoop(q, t, st,
        [ci |-> Len(q), cj |-> Len(t),
         matches |-> 0, mismatches |-> 0, gaps |-> 0, path |-> <<>>])

\* the traceback from (max_i, max_j)
Traceback(q, t, st) ==
    TracebackLoop(q, t, st,
        [ci |-> st.max_i, cj |-> st.max_j,
         matches |-> 0, mismatches |-> 0, gaps |-> 0, path |-> <<>>])

\* AlignmentResult whose alignment_length leaves the gaps out
AlignmentResult_NoGapsInLength(st, tb) ==
    [score |-> st.max_score,
     query_start |-> tb.ci,
     query_end |-> st.max_i,
     target_start |-> tb.cj,
     target_end |-> st.max_j,
     matches |-> tb.matches,
     mismatches |-> tb.mismatches,
     gaps |-> tb.gaps,
     alignment_length |-> tb.matches + tb.mismatches]

\* AlignmentResult with the starts left at 0
AlignmentResult_StartAtOrigin(st, tb) ==
    [score |-> st.max_score,
     query_start |-> 0,
     query_end |-> st.max_i,
     target_start |-> 0,
     target_end |-> st.max_j,
     matches |-> tb.matches,
     mismatches |-> tb.mismatches,
     gaps |-> tb.gaps,
     alignment_length |-> tb.matches + tb.mismatches + tb.gaps]

\* the AlignmentResult built from the maximum and the traceback
AlignmentResult(st, tb) ==
    [score |-> st.max_score,
     query_start |-> tb.ci,
     query_end |-> st.max_i,
     target_start |-> tb.cj,
     target_end |-> st.max_j,
     matches |-> tb.matches,
     mismatches |-> tb.mismatches,
     gaps |-> tb.gaps,
     alignment_length |-> tb.matches + tb.mismatches + tb.gaps]

\* ThresholdAndTraceback with the threshold exclusive (max_score <= min_score)
ThresholdAndTraceback_Exclusive(q, t, st, ms) ==
    IF st.max_score <= ms THEN None
    ELSE Some(AlignmentResult(st, Traceback(q, t, st)))

\* after the fill: None below min_score, else the traceback's result
ThresholdAndTraceback(q, t, st, ms) ==
    IF st.max_score < ms THEN None
    ELSE Some(AlignmentResult(st, Traceback(q, t, st)))

\* smith_waterman_local without the early return on an empty input
smith_waterman_local_NoEmptyCheck(q, t, p, bw, ms) ==
    ThresholdAndTraceback(q, t, Fill(q, t, p, bw), ms)

\* smith_waterman_local(query, target, params, band_width, min_score)
smith_waterman_local(q, t, p, bw, ms) ==
    IF Len(q) = 0 \/ Len(t) = 0 THEN None
    ELSE ThresholdAndTraceback(q, t, Fill(q, t, p, bw), ms)

\* the reverse-complement target of align_both_strands:
\* bytes -> chars (b as char) -> reverse_complement -> bytes (UTF-8)
rc_bytes(t) == StrBytes(reverse_complement(t))

\* BetterStrand with a tie going to the reverse complement (>=)
BetterStrand_TieToReverse(fwd, rev) ==
    IF IsSome(fwd) /\ IsSome(rev)
    THEN IF Unwrap(rev).score >= Unwrap(fwd).score
         THEN Some(<<Unwrap(rev), TRUE>>)
         ELSE Some(<<Unwrap(fwd), FALSE>>)
    ELSE IF IsSome(fwd) THEN Some(<<Unwrap(fwd), FALSE>>)
    ELSE IF IsSome(rev) THEN Some(<<Unwrap(rev), TRUE>>)
    ELSE None

\* match (fwd, rev): the reverse complement wins on a strictly greater score
BetterStrand(fwd, rev) ==
    IF IsSome(fwd) /\ IsSome(rev)
    THEN IF Unwrap(rev).score > Unwrap(fwd).score
         THEN Some(<<Unwrap(rev), TRUE>>)
         ELSE Some(<<Unwrap(fwd), FALSE>>)
    ELSE IF IsSome(fwd) THEN Some(<<Unwrap(fwd), FALSE>>)
    ELSE IF IsSome(rev) THEN Some(<<Unwrap(rev), TRUE>>)
    ELSE None

\* align_both_strands(query, target, params, band_width, min_score)
align_both_strands(q, t, p, bw, ms) ==
    BetterStrand(smith_waterman_local(q, t, p, bw, ms),
                 smith_waterman_local(q, rc_bytes(t), p, bw, ms))

-----------------------------------------------------------------------------
(* annotate *)

\* usize arithmetic wraps at 2^64 when overflow checks are off; TLC's integers
\* are 32-bit, so the model wraps at 2^30, above every offset it can produce
usize_modulus == 1073741824

\* a - b on usize without overflow checks
wrapping_sub(a, b) == IF a >= b THEN a - b ELSE a - b + usize_modulus

\* an f64 percentage num / den * 100.0, kept as the fraction it was computed
\* from (for den < 50 the f64 value compares with a whole number exactly as
\* the fraction does)
Percent(num, den) == [num |-> num, den |-> den]

ZeroPercent == Percent(0, 1)

\* pct >= threshold, threshold a whole number of percent
PercentGe(pct, threshold) == pct.num * 100 >= threshold * pct.den

\* AlignmentResult::percent_identity
percent_identity(a) ==
    IF a.alignment_length = 0 THEN ZeroPercent
    ELSE Percent(a.matches, a.alignment_length)

\* AlignmentResult::query_coverage
query_coverage(a, query_len) ==
    IF query_len = 0 THEN ZeroPercent
    ELSE Percent(a.query_end - a.query_start, query_len)

\* is_dna_sequence: every char is one of A, C, G, T after upper-casing
is_dna_sequence(seq) ==
    \A k \in 1..Len(seq) : to_ascii_uppercase(seq[k]) \in {chA, chC, chG, chT}

\* overlap_fraction(a, b) as the fraction overlap_len / a_len
overlap_fraction(a, b) ==
    LET start == Max2(a.target_start, b.target_start)
        end == Min2(a.target_end, b.target_end)
    IN  IF start >= end THEN [num |-> 0, den |-> 1]
        ELSE LET overlap_len == end - start
                 a_len == a.target_end - a.target_start
             IN  IF a_len = 0 THEN [num |-> 0, den |-> 1]
                 ELSE [num |-> overlap_len, den |-> a_len]

\* overlap >= 0.5
ExceedsHalf_Inclusive(fr) == 2 * fr.num >= fr.den

\* overlap > 0.5
ExceedsHalf(fr) == 2 * fr.num > fr.den

\* the closure of resolve_overlaps: some accepted hit covers more than half of hit
Dominated(hit, accepted) ==
    \E k \in 1..Len(accepted) : ExceedsHalf(overlap_fraction(hit, accepted[k]))

RECURSIVE InsertByStart(_, _)
\* one step of the stable sort by target_start: x goes after every hit that
\* does not start later
InsertByStart(sorted, x) ==
    IF sorted = <<>> THEN <<x>>
    ELSE IF x.target_start < Head(sorted).target_start THEN <<x>> \o sorted
    ELSE <<Head(sorted)>> \o InsertByStart(Tail(sorted), x)

RECURSIVE SortByStart(_, _)
\* accepted.sort_by_key(|h| h.target_start), a stable sort
SortByStart(sorted, rest) ==
    IF rest = <<>> THEN sorted
    ELSE SortByStart(InsertByStart(sorted, Head(rest)), Tail(rest))

RECURSIVE InsertByScore_Ascending(_, _)
\* one step of a stable sort by ascending score
InsertByScore_Ascending(sorted, x) ==
    IF sorted = <<>> THEN <<x>>
    ELSE IF x.alignment_score < Head(sorted).alignment_score THEN <<x>> \o sorted
    ELSE <<Head(sorted)>> \o InsertByScore_Ascending(Tail(sorted), x)

RECURSIVE InsertByScore(_, _)
\* one step of the stable sort by descending score
InsertByScore(sorted, x) ==
    IF sorted = <<>> THEN <<x>>
    ELSE IF x.alignment_score > Head(sorted).alignment_score THEN <<x>> \o sorted
    ELSE <<Head(sorted)>> \o InsertByScore(Tail(sorted), x)

RECURSIVE SortByScoreDesc(_, _)
\* hits.sort_by(|a, b| b.alignment_score.cmp(&a.alignment_score)), a stable sort
SortByScoreDesc(sorted, rest) ==
    IF rest = <<>> THEN sorted
    ELSE SortByScoreDesc(InsertByScore(sorted, Head(rest)), Tail(rest))

RECURSIVE ResolveLoop(_, _)
\* for hit in hits: keep it unless dominated
ResolveLoop(accepted, rest) ==
    IF rest = <<>> THEN accepted
    ELSE ResolveLoop(IF Dominated(Head(rest), accepted) THEN accepted
                     ELSE Append(accepted, Head(rest)),
                     Tail(rest))

\* resolve_overlaps without the final sort by position
resolve_overlaps_NoSort(hs) == ResolveLoop(<<>>, hs)

\* resolve_overlaps(hits)
resolve_overlaps(hs) == SortByStart(<<>>, ResolveLoop(<<>>, hs))

\* the coordinates of a hit: a reverse-complement alignment is mapped back
\* with target_len - target_end and target_len - target_start
HitSpan(alignment, is_rc, target_len) ==
    IF is_rc
    THEN [start |-> wrapping_sub(target_len, alignment.target_end),
          end |-> wrapping_sub(target_len, alignment.target_start)]
    ELSE [start |-> alignment.target_start, end |-> alignment.target_end]

\* the AnnotationHit pushed for an accepted alignment
AnnotationHit(component, alignment, is_rc, span) ==
    [component_id |-> component.id,
     target_start |-> span.start,
     target_end |-> span.end,
     is_reverse_complement |-> is_rc,
     percent_identity |-> percent_identity(alignment),
     query_coverage |-> query_coverage(alignment, Len(StrBytes(component.sequence))),
     alignment_score |-> alignment.score]

\* AcceptAlignment without the coverage threshold
AcceptAlignment_NoCoverage(t, component, cfg, overflow_checks, acc, alignment, is_rc) ==
    IF ~PercentGe(percent_identity(alignment), cfg.min_identity)
    THEN acc
    ELSE IF is_rc /\ overflow_checks /\ Len(t) < alignment.target_end
    THEN [acc EXCEPT !.panicked = TRUE]
    ELSE [acc EXCEPT !.hits =
             Append(@, AnnotationHit(component, alignment, is_rc,
                                     HitSpan(alignment, is_rc, Len(t))))]

\* the thresholds on an alignment, then the push of its hit: acc is
\* [hits, panicked]; with overflow checks the subtraction of HitSpan panics
\* when it would wrap
AcceptAlignment(t, component, cfg, overflow_checks, acc, alignment, is_rc) ==
    IF ~(PercentGe(percent_identity(alignment), cfg.min_identity)
         /\ PercentGe(query_coverage(alignment, Len(StrBytes(component.sequence))),
                      cfg.min_coverage))
    THEN acc
    ELSE IF is_rc /\ overflow_checks /\ Len(t) < alignment.target_end
    THEN [acc EXCEPT !.panicked = TRUE]
    ELSE [acc EXCEPT !.hits =
             Append(@, AnnotationHit(component, alignment, is_rc,
                                     HitSpan(alignment, is_rc, Len(t))))]

\* if let Some((alignment, is_rc)) = result
AcceptResult(t, component, cfg, overflow_checks, acc, res) ==
    IF ~IsSome(res) THEN acc
    ELSE AcceptAlignment(t, component, cfg, overflow_checks, acc,
                         Unwrap(res)[1], Unwrap(res)[2])

\* AnnotateComponent without the skip of non-DNA components
AnnotateComponent_NoDnaCheck(t, component, cfg, overflow_checks, acc) ==
    IF acc.panicked THEN acc
    ELSE AcceptResult(t, component, cfg, overflow_checks, acc,
             align_both_strands(StrBytes(component.sequence), t, cfg.scoring,
                                cfg.band_width, cfg.min_score))

\* the alignment of one strand as align_both_strands returns it
OneStrand(res, is_rc) ==
    IF IsSome(res) THEN Some(<<Unwrap(res), is_rc>>) ELSE None

\* AnnotateComponent that accepts the alignment of each strand on its own
AnnotateComponent_EachStrand(t, component, cfg, overflow_checks, acc) ==
    IF acc.panicked \/ ~is_dna_sequence(component.sequence) THEN acc
    ELSE AcceptResult(t, component, cfg, overflow_checks,
             AcceptResult(t, component, cfg, overflow_checks, acc,
                 OneStrand(smith_waterman_local(StrBytes(component.sequence), t,
                               cfg.scoring, cfg.band_width, cfg.min_score),
                           FALSE)),
             OneStrand(smith_waterman_local(StrBytes(component.sequence),
                           rc_bytes(t), cfg.scoring, cfg.band_width,
                           cfg.min_score),
                       TRUE))

\* the body of the loop over the components
AnnotateComponent(t, component, cfg, overflow_checks, acc) ==
    IF acc.panicked \/ ~is_dna_sequence(component.sequence) THEN acc
    ELSE AcceptResult(t, component, cfg, overflow_checks, acc,
             align_both_strands(StrBytes(component.sequence), t, cfg.scoring,
                                cfg.band_width, cfg.min_score))

RECURSIVE AnnotateLoop(_, _, _, _, _)
\* for component in components
AnnotateLoop(t, comps, cfg, overflow_checks, acc) ==
    IF comps = <<>> THEN acc
    ELSE AnnotateLoop(t, Tail(comps), cfg, overflow_checks,
                      AnnotateComponent(t, Head(comps), cfg, overflow_checks, acc))

\* resolve_overlaps(hits) on the sorted vector, which is kept as candidates
ResolveSorted(acc, sorted) ==
    [acc EXCEPT !.hits = resolve_overlaps(sorted), !.candidates = sorted]

\* hits.sort_by(score descending); resolve_overlaps(hits): skipped by a panic
SortAndResolve(acc) ==
    IF acc.panicked THEN acc
    ELSE ResolveSorted(acc, SortByScoreDesc(<<>>, acc.hits))

\* annotate that aligns against the doubled target when the flag is set
annotate_WrapAround(t, circular, comps, cfg, overflow_checks) ==
    SortAndResolve(AnnotateLoop(IF circular THEN t \o t ELSE t, comps, cfg,
                                overflow_checks,
                                [hits |-> <<>>, panicked |-> FALSE,
                                 candidates |-> <<>>]))

\* annotate(target, _is_circular, components, config): [hits, panicked,
\* candidates], the returned Vec, or panicked when an overflow check failed;
\* candidates is the vector resolve_overlaps was called with
annotate(t, circular, comps, cfg, overflow_checks) ==
    SortAndResolve(AnnotateLoop(t, comps, cfg, overflow_checks,
                                [hits |-> <<>>, panicked |-> FALSE,
                                 candidates |-> <<>>]))

-----------------------------------------------------------------------------
(* The component store: the components table of db.rs. A row is             *)
(* [id, name, sequence, is_builtin]; st is [store, rowid_seq].               *)

\* builtin_components(): the rows of the embedded CSV, here three lines of
\* which the third repeats the first
builtin_components ==
    <<[name |-> "AmpR", sequence |-> <<chA>>],
      [name |-> "T7", sequence |-> <<chT>>],
      [name |-> "AmpR", sequence |-> <<chA>>]>>

\* UNIQUE(name, sequence): a row with this name and sequence exists
Conflicts(st, c) ==
    \E r \in st.store : r.name = c.name /\ r.sequence = c.sequence

\* INSERT of c with the given is_builtin: id INTEGER PRIMARY KEY AUTOINCREMENT
\* takes the id after the largest one ever assigned
InsertRow(st, c, builtin) ==
    [store |-> st.store \cup {[id |-> st.rowid_seq + 1, name |-> c.name,
                               sequence |-> c.sequence, is_builtin |-> builtin]},
     rowid_seq |-> st.rowid_seq + 1]

RECURSIVE SeedLoop(_, _, _)
\* for c in &components: INSERT OR IGNORE ... is_builtin = 1; count += changed
SeedLoop(st, cs, count) ==
    IF cs = <<>> THEN [st |-> st, count |-> count]
    ELSE IF Conflicts(st, Head(cs)) THEN SeedLoop(st, Tail(cs), count)
    ELSE SeedLoop(InsertRow(st, Head(cs), TRUE), Tail(cs), count + 1)

\* seed_builtins(conn): [st, count]
seed_builtins(st) == SeedLoop(st, builtin_components, 0)

\* add_user_component(conn, component): INSERT ... is_builtin = 0; [st, ok,
\* id], ok false for the constraint error of a duplicate (name, sequence)
add_user_component(st, c) ==
    IF Conflicts(st, c) THEN [st |-> st, ok |-> FALSE, id |-> 0]
    ELSE [st |-> InsertRow(st, c, FALSE), ok |-> TRUE, id |-> st.rowid_seq + 1]

\* delete_user_component with DELETE FROM components WHERE id = ?1
delete_user_component_AnyRow(st, id) ==
    [st |-> [st EXCEPT !.store = {r \in @ : ~(r.id = id)}],
     changed |-> Cardinality({r \in st.store : r.id = id})]

\* delete_user_component(conn, id): DELETE FROM components WHERE id = ?1 AND
\* is_builtin = 0; [st, changed], the function returns changed > 0
delete_user_component(st, id) ==
    [st |-> [st EXCEPT !.store = {r \in @ : ~(r.id = id /\ ~r.is_builtin)}],
     changed |-> Cardinality({r \in st.store : r.id = id /\ ~r.is_builtin})]

-----------------------------------------------------------------------------
(* Inputs *)

MaxQueryLen == 3
MaxTargetLen == 3
MaxBand == 1
MaxMinScore == 5
BandQueryLen == 3
BandTargetLen == 5
MaxAnnotTargetLen == 3
MaxCompLen == 2
MaxComponents == 2
MaxAnnotBand == 0
MaxCandidates == 3
MaxCaseLen == 2
MaxStrandLen == 2
MaxUserRows == 2
MaxHitPos == 2
ShortQueryLen == 3
ShortTargetLen == 4

\* every sequence over S of length lo..hi
SeqsOf(S, lo, hi) == UNION {[1..k -> S] : k \in lo..hi}

\* a scoring with cheap gaps, so that short inputs align with gaps
CheapGapScoring ==
    [match_score |-> 4, mismatch_score |-> -2, gap_open |-> -1, gap_extend |-> -1]

ScoringSet == {DefaultScoring, CheapGapScoring}

Bands == {Some(w) : w \in 0..MaxBand}

BandSet == {None} \cup Bands

\* the min_score of the calls on shorter sequences: none, or one match of
\* the cheap-gap scoring
BandMinScores == {0, 4}

MinScores == -1..MaxMinScore

AlignBases == {chA, chT}

BandQueryBases == {chA, chC}

BandTargetBases == {chA, chC, chG}

\* the chars of an annotated target: three bases and U+00E9, whose UTF-8
\* form has two bytes
AnnotTargetChars == {chA, chT, chC, 233}

CompBases == {chA, chT}

\* the component lists: component k of a list has id k
ComponentLists ==
    {[k \in 1..Len(ss) |-> [id |-> k, sequence |-> ss[k]]] :
        ss \in SeqsOf(SeqsOf(CompBases, 1, MaxCompLen), 0, MaxComponents)}

\* AnnotationConfig values: the default scoring, each band, a low and a
\* higher min_score, no thresholds or 90 % thresholds
Configs ==
    {[scoring |-> DefaultScoring, band_width |-> bw, min_score |-> ms,
      min_identity |-> th, min_coverage |-> th] :
        bw \in {None} \cup {Some(w) : w \in 0..MaxAnnotBand},
        ms \in {0, 4}, th \in {0, 90}}

\* the chars of the targets whose reverse complement is taken: the fifteen
\* letters of the complement table, a lower-case base and a lower-case
\* ambiguity code, a letter outside the table (X) and U+00E9
StrandChars ==
    {chA, chT, chG, chC, 82, 89, 83, 87, 75, 77, 66, 86, 68, 72, 78,
     97, 114, 88, 233}

\* two bases in both cases: A, a, T, t
CaseBases == {chA, 97, chT, 116}

\* the targets of the component-list runs: two unrelated bases
ListTargetBases == {chA, chC}

\* a component sequence that is not DNA ("AN") next to the DNA ones
NonDnaSeqs == {<<chA, 78>>}

\* component lists with DNA and non-DNA entries; component k has id k
MixedComponentLists ==
    {[k \in 1..Len(ss) |-> [id |-> k, sequence |-> ss[k]]] :
        ss \in SeqsOf(SeqsOf(CompBases, 1, MaxCompLen) \cup NonDnaSeqs,
                      0, MaxComponents)}

\* AnnotationConfig values with both scorings and thresholds of 0, 50 and 100
ListConfigs ==
    {[scoring |-> sc, band_width |-> bw, min_score |-> ms,
      min_identity |-> th, min_coverage |-> th] :
        sc \in ScoringSet,
        bw \in {None} \cup {Some(w) : w \in 0..MaxAnnotBand},
        ms \in {0, 4}, th \in {0, 50, 100}}

\* the alignment scores of the hits handed to the overlap resolution
HitScores == {1, 2}

\* the hits a component can contribute: a span inside 0..MaxHitPos and a score
HitShapes ==
    {[target_start |-> a, target_end |-> b, alignment_score |-> sc] :
        a \in 0..MaxHitPos, b \in 0..MaxHitPos, sc \in HitScores}

\* the vectors of hits annotate has pushed before its sort: hit k belongs to
\* component k
PushedHits ==
    {[k \in 1..Len(hs) |->
         [component_id |-> k,
          target_start |-> hs[k].target_start,
          target_end |-> hs[k].target_end,
          is_reverse_complement |-> FALSE,
          percent_identity |-> Percent(1, 1),
          query_coverage |-> Percent(1, 1),
          alignment_score |-> hs[k].alignment_score]] :
        hs \in SeqsOf({h \in HitShapes : h.target_start <= h.target_end},
                      0, MaxCandidates)}

\* the components a user adds: one has the name and sequence of a built-in
UserComponents ==
    {[name |-> "AmpR", sequence |-> <<chA>>],
     [name |-> "Mine", sequence |-> <<chA>>],
     [name |-> "Mine", sequence |-> <<chT>>]}

\* db_call before any call on the component store
NoCall == [op |-> "none", id |-> 0, ok |-> TRUE, rows |-> 0, deleted |-> FALSE]

\* the value of the variables a specification does not use
NoConfig ==
    [scoring |-> DefaultScoring, band_width |-> None, min_score |-> 0,
     min_identity |-> 0, min_coverage |-> 0]

-----------------------------------------------------------------------------
(* The aligner called on one pair: smith_waterman_local, then                *)
(* align_both_strands with the same arguments                                *)

Init ==
    /\ query \in SeqsOf(AlignBases, 0, MaxQueryLen)
    /\ target \in SeqsOf(AlignBases, 0, MaxTargetLen)
    /\ params \in ScoringSet
    /\ band_width \in BandSet
    /\ min_score \in MinScores
    /\ unbanded = None
    /\ result = None
    /\ stranded = None
    /\ components = <<>>
    /\ config = NoConfig
    /\ is_circular = FALSE
    /\ hits = <<>>
    /\ candidates = <<>>
    /\ rc_target = <<>>
    /\ store = {}
    /\ rowid_seq = 0
    /\ db_call = NoCall
    /\ pc = "init"

Align ==
    /\ pc = "init"
    /\ result' = smith_waterman_local(query, target, params, band_width, min_score)
    /\ pc' = "aligned"
    /\ UNCHANGED <<query, target, params, band_width, min_score, unbanded,
                   stranded, components, config, is_circular, hits,
                   candidates, rc_target, store, rowid_seq, db_call>>

AlignBothStrands ==
    /\ pc = "aligned"
    /\ rc_target' = rc_bytes(target)
    /\ stranded' = align_both_strands(query, target, params, band_width, min_score)
    /\ pc' = "stranded"
    /\ UNCHANGED <<query, target, params, band_width, min_score, unbanded,
                   result, components, config, is_circular, hits, candidates,
                   store, rowid_seq, db_call>>

Next == Align \/ AlignBothStrands

Spec == Init /\ [][Next]_vars

-----------------------------------------------------------------------------
(* The aligner called with a band and then without one, as the banded-vs-    *)
(* unbanded tests do                                                         *)

InitBand ==
    /\ query \in SeqsOf(BandQueryBases, 1, BandQueryLen)
    /\ target \in SeqsOf(BandTargetBases, 1, BandTargetLen)
    /\ params \in ScoringSet
    /\ band_width \in Bands
    /\ min_score = 0
    /\ unbanded = None
    /\ result = None
    /\ stranded = None
    /\ components = <<>>
    /\ config = NoConfig
    /\ is_circular = FALSE
    /\ hits = <<>>
    /\ candidates = <<>>
    /\ rc_target = <<>>
    /\ store = {}
    /\ rowid_seq = 0
    /\ db_call = NoCall
    /\ pc = "init"

AlignUnbanded ==
    /\ pc = "aligned"
    /\ unbanded' = smith_waterman_local(query, target, params, None, min_score)
    /\ pc' = "unbanded"
    /\ UNCHANGED <<query, target, params, band_width, min_score, result,
                   stranded, components, config, is_circular, hits,
                   candidates, rc_target, store, rowid_seq, db_call>>

NextBand == Align \/ AlignUnbanded

SpecBand == InitBand /\ [][NextBand]_vars

-----------------------------------------------------------------------------
(* The banded-vs-unbanded calls on shorter sequences of two bases            *)

InitShort ==
    /\ query \in SeqsOf(BandQueryBases, 1, ShortQueryLen)
    /\ target \in SeqsOf(BandQueryBases, 1, ShortTargetLen)
    /\ params \in ScoringSet
    /\ band_width \in Bands
    /\ min_score \in BandMinScores
    /\ unbanded = None
    /\ result = None
    /\ stranded = None
    /\ components = <<>>
    /\ config = NoConfig
    /\ is_circular = FALSE
    /\ hits = <<>>
    /\ candidates = <<>>
    /\ rc_target = <<>>
    /\ store = {}
    /\ rowid_seq = 0
    /\ db_call = NoCall
    /\ pc = "init"

NextShort == Align \/ AlignUnbanded

SpecShort == InitShort /\ [][NextShort]_vars

-----------------------------------------------------------------------------
(* The aligner called on one non-empty pair with min_score 0                 *)

InitFill ==
    /\ query \in SeqsOf(AlignBases, 1, MaxQueryLen)
    /\ target \in SeqsOf(AlignBases, 1, MaxTargetLen)
    /\ params \in ScoringSet
    /\ band_width \in BandSet
    /\ min_score = 0
    /\ unbanded = None
    /\ result = None
    /\ stranded = None
    /\ components = <<>>
    /\ config = NoConfig
    /\ is_circular = FALSE
    /\ hits = <<>>
    /\ candidates = <<>>
    /\ rc_target = <<>>
    /\ store = {}
    /\ rowid_seq = 0
    /\ db_call = NoCall
    /\ pc = "init"

NextFill == Align \/ AlignBothStrands

SpecFill == InitFill /\ [][NextFill]_vars

-----------------------------------------------------------------------------
(* annotate called on a target and a component list                          *)

InitAnnotate ==
    /\ query = <<>>
    /\ target \in {StrBytes(cs) : cs \in SeqsOf(AnnotTargetChars, 0, MaxAnnotTargetLen)}
    /\ params = DefaultScoring
    /\ band_width = None
    /\ min_score = 0
    /\ unbanded = None
    /\ result = None
    /\ stranded = None
    /\ components \in ComponentLists
    /\ config \in Configs
    /\ is_circular \in BOOLEAN
    /\ hits = <<>>
    /\ candidates = <<>>
    /\ rc_target = <<>>
    /\ store = {}
    /\ rowid_seq = 0
    /\ db_call = NoCall
    /\ pc = "init"

\* annotate returns its hits, or panics where the build checks overflow
Annotate ==
    /\ pc = "init"
    /\ \E overflow_checks \in BOOLEAN :
          \E r \in {annotate(target, is_circular, components, config, overflow_checks)} :
              /\ hits' = r.hits
              /\ candidates' = r.candidates
              /\ pc' = IF r.panicked THEN "panicked" ELSE "annotated"
    /\ UNCHANGED <<query, target, params, band_width, min_score, unbanded,
                   result, stranded, components, config, is_circular,
                   rc_target, store, rowid_seq, db_call>>

NextAnnotate == Annotate

SpecAnnotate == InitAnnotate /\ [][NextAnnotate]_vars

-----------------------------------------------------------------------------
(* annotate called on component lists that mix DNA and non-DNA entries       *)

InitComponents ==
    /\ query = <<>>
    /\ target \in SeqsOf(ListTargetBases, 0, MaxAnnotTargetLen)
    /\ params = DefaultScoring
    /\ band_width = None
    /\ min_score = 0
    /\ unbanded = None
    /\ result = None
    /\ stranded = None
    /\ components \in MixedComponentLists
    /\ config \in ListConfigs
    /\ is_circular \in BOOLEAN
    /\ hits = <<>>
    /\ candidates = <<>>
    /\ rc_target = <<>>
    /\ store = {}
    /\ rowid_seq = 0
    /\ db_call = NoCall
    /\ pc = "init"

NextComponents == Annotate

SpecComponents == InitComponents /\ [][NextComponents]_vars

-----------------------------------------------------------------------------
(* align_both_strands called on targets with ambiguity codes, lower case     *)
(* and non-ASCII text                                                        *)

InitStrand ==
    /\ query = <<chA>>
    /\ target \in {StrBytes(cs) : cs \in SeqsOf(StrandChars, 0, MaxStrandLen)}
    /\ params = DefaultScoring
    /\ band_width = None
    /\ min_score = 0
    /\ unbanded = None
    /\ result = None
    /\ stranded = None
    /\ components = <<>>
    /\ config = NoConfig
    /\ is_circular = FALSE
    /\ hits = <<>>
    /\ candidates = <<>>
    /\ rc_target = <<>>
    /\ store = {}
    /\ rowid_seq = 0
    /\ db_call = NoCall
    /\ pc = "init"

NextStrand == Align \/ AlignBothStrands

SpecStrand == InitStrand /\ [][NextStrand]_vars

-----------------------------------------------------------------------------
(* The component store after init_db: seed_builtins, add_user_component and  *)
(* delete_user_component in any order                                        *)

InitDb ==
    /\ query = <<>>
    /\ target = <<>>
    /\ params = DefaultScoring
    /\ band_width = None
    /\ min_score = 0
    /\ unbanded = None
    /\ result = None
    /\ stranded = None
    /\ components = <<>>
    /\ config = NoConfig
    /\ is_circular = FALSE
    /\ hits = <<>>
    /\ candidates = <<>>
    /\ rc_target = <<>>
    /\ store = {}
    /\ rowid_seq = 0
    /\ db_call = NoCall
    /\ pc = "init"

\* the connection's table as the operators take it
Conn == [store |-> store, rowid_seq |-> rowid_seq]

SeedBuiltins ==
    /\ \E r \in {seed_builtins(Conn)} :
          /\ store' = r.st.store
          /\ rowid_seq' = r.st.rowid_seq
          /\ db_call' = [op |-> "seed", id |-> 0, ok |-> TRUE,
                         rows |-> r.count, deleted |-> FALSE]
    /\ pc' = "seeded"
    /\ UNCHANGED <<query, target, params, band_width, min_score, unbanded,
                   result, stranded, components, config, is_circular, hits,
                   candidates, rc_target>>

\* at most MaxUserRows user components are ever added
AddUserComponent ==
    /\ Cardinality({r \in store : ~r.is_builtin}) < MaxUserRows
    /\ rowid_seq < MaxUserRows + Len(builtin_components)
    /\ \E c \in UserComponents :
          \E r \in {add_user_component(Conn, c)} :
              /\ store' = r.st.store
              /\ rowid_seq' = r.st.rowid_seq
              /\ db_call' = [op |-> "add", id |-> r.id, ok |-> r.ok,
                             rows |-> IF r.ok THEN 1 ELSE 0, deleted |-> FALSE]
    /\ pc' = "added"
    /\ UNCHANGED <<query, target, params, band_width, min_score, unbanded,
                   result, stranded, components, config, is_circular, hits,
                   candidates, rc_target>>

DeleteUserComponent ==
    /\ \E id \in 0..(rowid_seq + 1) :
          \E r \in {delete_user_component(Conn, id)} :
              /\ store' = r.st.store
              /\ rowid_seq' = r.st.rowid_seq
              /\ db_call' = [op |-> "delete", id |-> id, ok |-> TRUE,
                             rows |-> r.changed, deleted |-> r.changed > 0]
    /\ pc' = "deleted"
    /\ UNCHANGED <<query, target, params, band_width, min_score, unbanded,
                   result, stranded, components, config, is_circular, hits,
                   candidates, rc_target>>

NextDb == SeedBuiltins \/ AddUserComponent \/ DeleteUserComponent

SpecDb == InitDb /\ [][NextDb]_vars

-----------------------------------------------------------------------------
(* The aligner called on sequences of mixed case                             *)

InitCase ==
    /\ query \in SeqsOf(CaseBases, 0, MaxCaseLen)
    /\ target \in SeqsOf(CaseBases, 0, MaxCaseLen)
    /\ params \in ScoringSet
    /\ band_width \in BandSet
    /\ min_score \in {0, 4}
    /\ unbanded = None
    /\ result = None
    /\ stranded = None
    /\ components = <<>>
    /\ config = NoConfig
    /\ is_circular = FALSE
    /\ hits = <<>>
    /\ candidates = <<>>
    /\ rc_target = <<>>
    /\ store = {}
    /\ rowid_seq = 0
    /\ db_call = NoCall
    /\ pc = "init"

NextCase == Align

SpecCase == InitCase /\ [][NextCase]_vars

-----------------------------------------------------------------------------
(* The end of annotate on the hits it has pushed: the sort by score and      *)
(* resolve_overlaps                                                          *)

InitResolve ==
    /\ query = <<>>
    /\ target = <<>>
    /\ params = DefaultScoring
    /\ band_width = None
    /\ min_score = 0
    /\ unbanded = None
    /\ result = None
    /\ stranded = None
    /\ components = <<>>
    /\ config = NoConfig
    /\ is_circular = FALSE
    /\ hits = <<>>
    /\ candidates \in PushedHits
    /\ rc_target = <<>>
    /\ store = {}
    /\ rowid_seq = 0
    /\ db_call = NoCall
    /\ pc = "pushed"

\* hits.sort_by(score descending); resolve_overlaps(hits)
Resolve ==
    /\ pc = "pushed"
    /\ \E r \in {SortAndResolve([hits |-> candidates, panicked |-> FALSE,
                                  candidates |-> <<>>])} :
          /\ hits' = r.hits
          /\ candidates' = r.candidates
    /\ pc' = "resolved"
    /\ UNCHANGED <<query, target, params, band_width, min_score, unbanded,
                   result, stranded, components, config, is_circular,
                   rc_target, store, rowid_seq, db_call>>

NextResolve == Resolve

SpecResolve == InitResolve /\ [][NextResolve]_vars

-----------------------------------------------------------------------------
(* Properties of smith_waterman_local and align_both_strands (Spec)          *)

\* the best score the fill of the call found (max_score at line 202)
BestScore == Fill(query, target, params, band_width).max_score

\* the call of smith_waterman_local has returned
Aligned == pc \in {"aligned", "stranded", "unbanded"}

\* the result of an alignment of all of s with itself
FullSelfAlignment(s, p) ==
    [score |-> Len(s) * p.match_score,
     query_start |-> 0, query_end |-> Len(s),
     target_start |-> 0, target_end |-> Len(s),
     matches |-> Len(s), mismatches |-> 0, gaps |-> 0,
     alignment_length |-> Len(s)]

\* C1: a non-empty sequence aligned with itself, with min_score at most
\* L * match_score, gives score L * match_score, L matches, no mismatch, no
\* gap, the spans [0, L), 100 % identity and 100 % coverage, with no band and
\* with every band width
C1_SelfAlignment ==
    (Aligned /\ query = target /\ Len(query) > 0
        /\ min_score <= Len(query) * params.match_score)
    => /\ result = Some(FullSelfAlignment(query, params))
       /\ percent_identity(Unwrap(result)) = Percent(Len(query), Len(query))
       /\ query_coverage(Unwrap(result), Len(query)) = Percent(Len(query), Len(query))

\* a self-alignment under band 0 whose min_score is exactly L * match_score
C1_Witness ==
    /\ pc = "aligned" /\ query = target /\ Len(query) >= 2
    /\ band_width = Some(0) /\ min_score = Len(query) * params.match_score
    /\ IsSome(result)

\* the reverse-complement call of align_both_strands on the state's inputs
RevResult ==
    smith_waterman_local(query, rc_bytes(target), params, band_width, min_score)

\* C5: align_both_strands returns the forward alignment with flag false when
\* the forward strand has a result and the reverse-complement score is not
\* strictly greater; the reverse-complement alignment with flag true exactly
\* when that strand has a result and the forward strand has none or a
\* strictly smaller score; nothing exactly when neither strand has a result;
\* the returned score is the maximum of the strand scores
C5_StrandChoice ==
    pc = "stranded" =>
        \E rev \in {RevResult} :
            /\ (IsSome(result) /\ (~IsSome(rev) \/ Unwrap(rev).score <= Unwrap(result).score))
                   => stranded = Some(<<Unwrap(result), FALSE>>)
            /\ (IsSome(rev) /\ (~IsSome(result) \/ Unwrap(rev).score > Unwrap(result).score))
                   => stranded = Some(<<Unwrap(rev), TRUE>>)
            /\ (IsSome(stranded) /\ Unwrap(stranded)[2])
                   => (IsSome(rev) /\ (~IsSome(result) \/ Unwrap(rev).score > Unwrap(result).score))
            /\ (stranded = None) <=> (~IsSome(result) /\ ~IsSome(rev))
            /\ (IsSome(result) /\ IsSome(rev))
                   => Unwrap(stranded)[1].score = Max2(Unwrap(result).score, Unwrap(rev).score)

\* both strands align with the same positive score, and forward is returned
C5_Witness ==
    /\ pc = "stranded" /\ IsSome(result) /\ IsSome(RevResult)
    /\ Unwrap(RevResult).score = Unwrap(result).score
    /\ Unwrap(result).score > 0
    /\ Unwrap(RevResult) # Unwrap(result)
    /\ stranded = Some(<<Unwrap(result), FALSE>>)

\* C6: for a non-empty pair and min_score >= 1, a result is returned exactly
\* when the best score S the fill found is at least min_score (so with
\* min_score = S it is, with min_score = S + 1 it is not), and a returned
\* result has score S >= min_score
C6_MinScoreThreshold ==
    (Aligned /\ Len(query) > 0 /\ Len(target) > 0 /\ min_score >= 1)
    => /\ IsSome(result) <=> BestScore >= min_score
       /\ IsSome(result) => /\ Unwrap(result).score = BestScore
                            /\ Unwrap(result).score >= min_score

\* a call whose min_score is exactly the best score
C6_Witness ==
    /\ pc = "aligned" /\ Len(query) > 0 /\ Len(target) > 0
    /\ min_score >= 1 /\ BestScore = min_score /\ IsSome(result)

\* C7: with min_score = 0 and a non-empty pair in which no cell scores above
\* zero, smith_waterman_local returns nothing
C7_ZeroMinScoreNeedsPositive ==
    (Aligned /\ Len(query) > 0 /\ Len(target) > 0 /\ min_score = 0 /\ BestScore = 0)
    => result = None

\* C8: with an empty query or an empty target smith_waterman_local returns
\* nothing, for every scoring, band and min_score, and so does
\* align_both_strands
C8_EmptyInput ==
    (Len(query) = 0 \/ Len(target) = 0)
    => /\ Aligned => result = None
       /\ pc = "stranded" => stranded = None

C8_Witness ==
    /\ pc = "stranded" /\ Len(query) > 0 /\ Len(target) = 0 /\ min_score <= 0
    /\ IsSome(band_width) /\ stranded = None

\* num / den * 100 lies in [0, 100]
PercentInRange(pct) == 0 <= pct.num /\ pct.num <= pct.den

\* C16: a returned AlignmentResult has 0 <= query_start <= query_end <=
\* |query|, 0 <= target_start <= target_end <= |target|, alignment_length =
\* matches + mismatches + gaps and matches <= alignment_length, and its
\* percent_identity and query_coverage(|query|) lie in [0, 100]
C16_ResultInvariants ==
    (Aligned /\ IsSome(result)) =>
        \E a \in {Unwrap(result)} :
            /\ 0 <= a.query_start /\ a.query_start <= a.query_end
            /\ a.query_end <= Len(query)
            /\ 0 <= a.target_start /\ a.target_start <= a.target_end
            /\ a.target_end <= Len(target)
            /\ a.alignment_length = a.matches + a.mismatches + a.gaps
            /\ a.matches <= a.alignment_length
            /\ PercentInRange(percent_identity(a))
            /\ PercentInRange(query_coverage(a, Len(query)))

\* a banded result whose alignment holds a gap
C16_Witness ==
    /\ pc = "aligned" /\ IsSome(band_width) /\ IsSome(result)
    /\ Unwrap(result).gaps > 0 /\ Unwrap(result).matches > 0

-----------------------------------------------------------------------------
(* Properties of the band (SpecBand)                                         *)

\* the cells the traceback of the unbanded call visits
UnbandedPath ==
    Traceback(query, target, Fill(query, target, params, None)).path

\* cell (i, j) lies within w columns of the band center of row i
InBand(cell, w) ==
    \E c \in {BandCenter(Len(query), Len(target), cell[1])} :
        c - w <= cell[2] /\ cell[2] <= c + w

\* score and counts of two results agree
SameScoreAndCounts(a, b) ==
    /\ a.score = b.score /\ a.matches = b.matches
    /\ a.mismatches = b.mismatches /\ a.gaps = b.gaps

\* C9: when every cell of the unbanded call's traceback path lies in the band,
\* the banded call returns the score, matches, mismatches and gaps of the
\* unbanded call
C9_PathInBandSameResult ==
    (pc = "unbanded" /\ IsSome(unbanded)
        /\ \A k \in 1..Len(UnbandedPath) : InBand(UnbandedPath[k], Unwrap(band_width)))
    => /\ IsSome(result)
       /\ SameScoreAndCounts(Unwrap(result), Unwrap(unbanded))

\* C10: when the unbanded optimum is a gap-free, 100 % identity alignment of
\* the whole query, the banded call returns the same result
C10_ExactCopySameResult ==
    (pc = "unbanded" /\ IsSome(unbanded)
        /\ Unwrap(unbanded).matches = Len(query)
        /\ Unwrap(unbanded).mismatches = 0 /\ Unwrap(unbanded).gaps = 0)
    => result = unbanded

-----------------------------------------------------------------------------
(* Properties of annotate (SpecAnnotate)                                     *)

\* the offsets at which s occurs in t, compared as the aligner compares bases
Occurrences(s, t) ==
    {k \in 0..(Len(t) - Len(s)) :
        \A x \in 1..Len(s) : to_ascii_uppercase(t[k + x]) = to_ascii_uppercase(s[x])}

\* the query annotate aligns for the only component of the list
OnlyQuery == StrBytes(components[1].sequence)

\* the hit of a full-length exact match of the only component at [k, k + |S|)
ExactHit(k, is_rc) ==
    [component_id |-> components[1].id,
     target_start |-> k,
     target_end |-> k + Len(OnlyQuery),
     is_reverse_complement |-> is_rc,
     percent_identity |-> Percent(Len(OnlyQuery), Len(OnlyQuery)),
     query_coverage |-> Percent(Len(OnlyQuery), Len(OnlyQuery)),
     alignment_score |-> Len(OnlyQuery) * config.scoring.match_score]

\* C2: the target holds one exact copy of the DNA component S, at offset k,
\* no copy on the reverse strand, |S| * match_score >= min_score and the
\* thresholds are 90: annotate returns exactly the forward hit [k, k + |S|)
\* with 100 % identity, under whatever band the config carries
C2_ExactCopyOneHit ==
    (pc = "annotated" /\ Len(components) = 1 /\ Len(OnlyQuery) > 0
        /\ is_dna_sequence(components[1].sequence)
        /\ config.min_identity = 90 /\ config.min_coverage = 90
        /\ Len(OnlyQuery) * config.scoring.match_score >= config.min_score
        /\ Cardinality(Occurrences(OnlyQuery, target)) = 1
        /\ Occurrences(OnlyQuery, rc_bytes(target)) = {})
    => \E k \in Occurrences(OnlyQuery, target) : hits = <<ExactHit(k, FALSE)>>

\* C3: the target holds the reverse complement of a non-palindromic DNA
\* component and no forward copy (thresholds 90, |S| * match_score >=
\* min_score): annotate returns a single hit, flagged reverse complement
C3_ReverseComplementHit ==
    (pc = "annotated" /\ Len(components) = 1 /\ Len(OnlyQuery) > 0
        /\ is_dna_sequence(components[1].sequence)
        /\ config.min_identity = 90 /\ config.min_coverage = 90
        /\ reverse_complement(OnlyQuery) # OnlyQuery
        /\ Len(OnlyQuery) * config.scoring.match_score >= config.min_score
        /\ Occurrences(OnlyQuery, rc_bytes(target)) # {}
        /\ Occurrences(OnlyQuery, target) = {})
    => /\ Len(hits) = 1
       /\ hits[1].component_id = components[1].id
       /\ hits[1].is_reverse_complement

\* the two-strand alignment annotate computed for the component of a hit
HitAlignment(hit) ==
    align_both_strands(StrBytes(components[hit.component_id].sequence), target,
                       config.scoring, config.band_width, config.min_score)

\* the coordinates of a hit against the alignment (a, is_rc) it came from
RemappedSpan(hit, a, is_rc) ==
    /\ hit.is_reverse_complement = is_rc
    /\ is_rc =>
          /\ hit.target_start = Len(target) - a.target_end
          /\ hit.target_end = Len(target) - a.target_start
          /\ 0 <= hit.target_start /\ hit.target_start <= hit.target_end
          /\ hit.target_end <= Len(target)
          /\ hit.target_end - hit.target_start = a.target_end - a.target_start
          /\ StrBytes(reverse_complement(SubSeq(target, hit.target_start + 1, hit.target_end)))
                 = SubSeq(rc_bytes(target), a.target_start + 1, a.target_end)
    /\ ~is_rc =>
          /\ hit.target_start = a.target_start
          /\ hit.target_end = a.target_end

\* C4: a reverse-complement hit carries the span [s, e) of its alignment as
\* [target_len - e, target_len - s), which lies inside the target, has the
\* same length and whose reverse complement is the aligned segment; a forward
\* hit carries the span of its alignment unchanged
C4_RemappedCoordinates ==
    pc = "annotated" =>
        \A k \in 1..Len(hits) :
            \E res \in {HitAlignment(hits[k])} :
                IsSome(res) /\ RemappedSpan(hits[k], Unwrap(res)[1], Unwrap(res)[2])

-----------------------------------------------------------------------------
(* Properties of the thresholds and the component list (SpecComponents)      *)

\* the two-strand alignment of component k against the target
ComponentAlignment(k) ==
    align_both_strands(StrBytes(components[k].sequence), target,
                       config.scoring, config.band_width, config.min_score)

\* the alignment a of component k meets the three thresholds of the config,
\* stated on the counts of the alignment
MeetsThresholds(a, k) ==
    /\ a.score >= config.min_score
    /\ IF a.alignment_length = 0 THEN config.min_identity <= 0
       ELSE a.matches * 100 >= config.min_identity * a.alignment_length
    /\ (a.query_end - a.query_start) * 100
           >= config.min_coverage * Len(components[k].sequence)

\* the hits of hs that belong to component k
HitsOf(hs, k) == {x \in 1..Len(hs) : hs[x].component_id = components[k].id}

\* C11: every returned hit has percent_identity >= min_identity,
\* query_coverage (over the component's length) >= min_coverage and
\* alignment_score >= min_score; a DNA component whose best two-strand
\* alignment fails one of the three has no hit, and one that meets all three
\* (equality included) is among the candidates handed to resolve_overlaps
C11_ThresholdsFilterHits ==
    pc = "annotated" =>
        /\ \A x \in 1..Len(hits) :
              /\ PercentGe(hits[x].percent_identity, config.min_identity)
              /\ PercentGe(hits[x].query_coverage, config.min_coverage)
              /\ hits[x].query_coverage.den
                     = Len(components[hits[x].component_id].sequence)
              /\ hits[x].alignment_score >= config.min_score
        /\ \A k \in 1..Len(components) :
              is_dna_sequence(components[k].sequence) =>
                  \E res \in {ComponentAlignment(k)} :
                      IF IsSome(res) /\ MeetsThresholds(Unwrap(res)[1], k)
                      THEN Cardinality(HitsOf(candidates, k)) = 1
                      ELSE HitsOf(candidates, k) = {} /\ HitsOf(hits, k) = {}

\* thresholds of 100: a component at exactly 100 % identity and coverage has
\* a hit, and one whose alignment covers the whole query with a gap (identity
\* below 100 %) is not a candidate
C11_Witness ==
    /\ pc = "annotated" /\ Len(components) = 2
    /\ config.min_identity = 100 /\ config.min_coverage = 100
    /\ \E x \in 1..Len(hits) :
          /\ hits[x].component_id = 1
          /\ PercentGe(hits[x].percent_identity, 100)
          /\ PercentGe(hits[x].query_coverage, 100)
    /\ is_dna_sequence(components[2].sequence)
    /\ \E res \in {ComponentAlignment(2)} :
          /\ IsSome(res)
          /\ Unwrap(res)[1].matches < Unwrap(res)[1].alignment_length
          /\ Unwrap(res)[1].query_end - Unwrap(res)[1].query_start = Len(components[2].sequence)
          /\ HitsOf(candidates, 2) = {}

\* the DNA components of the list, in their order and with their ids
DnaComponents ==
    SelectSeq(components, LAMBDA c : is_dna_sequence(c.sequence))

\* C12: a component with a character other than A, C, G, T (either case)
\* has no hit, whatever the target and thresholds, and the hits are those
\* annotate returns for the list without the non-DNA components
C12_NonDnaSkipped ==
    pc = "annotated" =>
        /\ \A x \in 1..Len(hits) :
              is_dna_sequence(components[hits[x].component_id].sequence)
        /\ hits = annotate(target, is_circular, DnaComponents, config, FALSE).hits

\* a non-DNA component that shares a base with the target, no thresholds, next
\* to a DNA component that has a hit
C12_Witness ==
    /\ pc = "annotated" /\ Len(components) = 2
    /\ ~is_dna_sequence(components[1].sequence)
    /\ is_dna_sequence(components[2].sequence)
    /\ \E x \in 1..Len(target) : target[x] = components[1].sequence[1]
    /\ config.min_identity = 0 /\ config.min_coverage = 0 /\ config.min_score = 0
    /\ Len(hits) = 1 /\ hits[1].component_id = 2

\* the component list in reverse order
ReversedComponents ==
    [k \in 1..Len(components) |-> components[Len(components) + 1 - k]]

\* C13: annotate returns the same hits, in the same order, for every
\* permutation of the component list; stated for lists of two DNA components
\* with different sequences, whose permutations are the list and its reverse
C13_OrderIndependent ==
    (pc = "annotated" /\ Len(components) = 2
        /\ components[1].sequence # components[2].sequence)
    => hits = annotate(target, is_circular, ReversedComponents, config, FALSE).hits

\* s occurs in the circular target across the origin: in t \o t at an offset
\* whose copy runs past the end of t
SpansOrigin(s, t) ==
    \E k \in 1..(Len(t) - 1) :
        /\ k + Len(s) > Len(t) /\ Len(s) <= Len(t)
        /\ \A x \in 1..Len(s) : (t \o t)[k + x] = s[x]

\* C18: annotate returns the same hits with is_circular true and false; no
\* hit runs past the end of the target, and a component whose only copy
\* spans the origin has no full-length hit
C18_CircularIgnored ==
    pc = "annotated" =>
        /\ hits = annotate(target, ~is_circular, components, config, FALSE).hits
        /\ \A x \in 1..Len(hits) :
              /\ 0 <= hits[x].target_start
              /\ hits[x].target_start <= hits[x].target_end
              /\ hits[x].target_end <= Len(target)
        /\ \A k \in 1..Len(components) :
              (/\ is_circular
               /\ Occurrences(components[k].sequence, target) = {}
               /\ Occurrences(components[k].sequence, rc_bytes(target)) = {}
               /\ config.min_identity = 100 /\ config.min_coverage = 100)
              => HitsOf(hits, k) = {}

\* a circular target with a copy of the component across the origin
C18_Witness ==
    /\ pc = "annotated" /\ is_circular /\ Len(components) = 1
    /\ SpansOrigin(components[1].sequence, target)
    /\ Occurrences(components[1].sequence, target) = {}
    /\ config.min_identity = 100 /\ config.min_coverage = 100
    /\ hits = <<>>

-----------------------------------------------------------------------------
(* Properties of resolve_overlaps (SpecResolve)                              *)

\* the number of positions hits a and b share
SharedLength(a, b) ==
    Max2(0, Min2(a.target_end, b.target_end) - Max2(a.target_start, b.target_start))

\* candidate k loses more than half of its own length to candidate j
CoversMoreThanHalf(j, k) ==
    2 * SharedLength(candidates[k], candidates[j])
        > candidates[k].target_end - candidates[k].target_start

\* A is the set of candidates a greedy pass in list order accepts
GreedyAccepted(A) ==
    \A k \in 1..Len(candidates) :
        k \in A <=> ~\E j \in A : j < k /\ CoversMoreThanHalf(j, k)

\* C14: the candidates are taken in descending score order, and a candidate
\* is discarded exactly when an already accepted hit shares more than half of
\* the candidate's own length with it: exactly half is kept, a disjoint or
\* zero-length candidate is kept; of two hits the second goes when more than
\* half of it is covered and both stay when they share nothing
C14_GreedyOverlapRule ==
    pc = "resolved" =>
        /\ \A x \in 1..Len(candidates), y \in 1..Len(candidates) :
              x < y => candidates[x].alignment_score >= candidates[y].alignment_score
        /\ \E A \in SUBSET (1..Len(candidates)) :
              /\ GreedyAccepted(A)
              /\ Len(hits) = Cardinality(A)
              /\ {hits[x] : x \in 1..Len(hits)} = {candidates[k] : k \in A}
        /\ Len(candidates) = 2 =>
              /\ CoversMoreThanHalf(1, 2) => hits = <<candidates[1]>>
              /\ SharedLength(candidates[1], candidates[2]) = 0 => Len(hits) = 2

\* two candidates, exactly half of the second covered by the first: both stay
C14_Witness ==
    /\ pc = "resolved" /\ Len(candidates) = 2
    /\ 2 * SharedLength(candidates[2], candidates[1])
           = candidates[2].target_end - candidates[2].target_start
    /\ SharedLength(candidates[2], candidates[1]) > 0
    /\ Len(hits) = 2

\* C15: the list resolve_overlaps returns is in ascending target_start order
C15_SortedByStart ==
    pc = "resolved" =>
        \A x \in 1..Len(hits), y \in 1..Len(hits) :
            x < y => hits[x].target_start <= hits[y].target_start

\* the accepted hits come back in another order than they were accepted in
C15_Witness ==
    /\ pc = "resolved" /\ Len(hits) = 2
    /\ hits[1] = candidates[2] /\ hits[2] = candidates[1]
    /\ hits[1].target_start < hits[2].target_start

-----------------------------------------------------------------------------
(* Case-insensitivity of the aligner (SpecCase)                              *)

\* the upper-case form of a sequence over CaseBases
UpperCased(s) ==
    [k \in 1..Len(s) |-> CASE s[k] = 97 -> chA [] s[k] = 116 -> chT [] OTHER -> s[k]]

\* C17: smith_waterman_local returns for every query and target what it
\* returns for their upper-case forms, so the result (presence, score, spans,
\* counts) is the same for all spellings of the same letters
C17_CaseInsensitive ==
    Aligned =>
        result = smith_waterman_local(UpperCased(query), UpperCased(target),
                                      params, band_width, min_score)

\* a query and a target that agree only after case folding, fully aligned
C17_Witness ==
    /\ pc = "aligned" /\ Len(query) = MaxCaseLen
    /\ \A k \in 1..Len(query) : k <= Len(target) /\ query[k] # target[k]
    /\ UpperCased(query) = UpperCased(target)
    /\ IsSome(result) /\ Unwrap(result).matches = Len(query)

-----------------------------------------------------------------------------
(* Properties of reverse_complement (SpecStrand)                             *)

\* the complement pairs A-T, C-G, R-Y, K-M, B-V, D-H
ComplementPairs ==
    {<<65, 84>>, <<67, 71>>, <<82, 89>>, <<75, 77>>, <<66, 86>>, <<68, 72>>}

\* a char with an ASCII lower-case letter turned into its capital
Capital(c) == IF c \in 97..122 THEN c - 32 ELSE c

\* the complement of a char by the pairs; S, W, N and every other char map
\* to their capital
PairedBase(c) ==
    IF \E pr \in ComplementPairs : pr[1] = Capital(c)
    THEN (CHOOSE pr \in ComplementPairs : pr[1] = Capital(c))[2]
    ELSE IF \E pr \in ComplementPairs : pr[2] = Capital(c)
    THEN (CHOOSE pr \in ComplementPairs : pr[2] = Capital(c))[1]
    ELSE Capital(c)

\* the String align_both_strands hands to reverse_complement: one char per
\* target byte
TargetChars == target

\* C19: reverse_complement reverses the sequence and complements each base by
\* the table with the ambiguity codes, keeps the length, and applied twice
\* gives the upper-cased original; the reverse-complement target handed to
\* the aligner has the length of the target
C19_ReverseComplement ==
    pc = "stranded" =>
        \E rc \in {reverse_complement(TargetChars)} :
            /\ Len(rc) = Len(TargetChars)
            /\ \A k \in 1..Len(rc) :
                  rc[k] = PairedBase(TargetChars[Len(TargetChars) + 1 - k])
            /\ reverse_complement(rc)
                   = [k \in 1..Len(TargetChars) |-> Capital(TargetChars[k])]
            /\ Len(rc_target) = Len(target)

-----------------------------------------------------------------------------
(* Properties of the component store (SpecDb)                                *)

\* the rows of the store with the id of the last call
RowsWithId(rows, id) == {r \in rows : r.id = id}

\* C20: a row leaves the store only in a delete_user_component call with its
\* id, and only if its is_builtin is 0; the call with the id of a built-in or
\* an unknown id returns false and leaves the store unchanged, the call with
\* the id of a user component removes exactly that row and returns true
C20_BuiltinsNotDeleted ==
    [][/\ \A r \in store \ store' :
             ~r.is_builtin /\ db_call'.op = "delete" /\ db_call'.id = r.id
       /\ db_call'.op = "delete" =>
             IF \E r \in RowsWithId(store, db_call'.id) : ~r.is_builtin
             THEN /\ db_call'.deleted
                  /\ store' = store \ RowsWithId(store, db_call'.id)
                  /\ Cardinality(RowsWithId(store, db_call'.id)) = 1
             ELSE ~db_call'.deleted /\ store' = store]_vars

\* a delete called with the id of a built-in, in a store that also holds a
\* user component: it returned false and the built-in is still there
C20_Witness ==
    /\ pc = "deleted" /\ ~db_call.deleted
    /\ \E r \in store : r.id = db_call.id /\ r.is_builtin
    /\ \E r \in store : ~r.is_builtin

-----------------------------------------------------------------------------
(* The affine-gap local alignment problem, and smith_waterman_local without  *)
(* a band measured against it (SpecFill)                                     *)

\* the greatest element of a finite set of integers
MaxOf(S) == CHOOSE x \in S : \A y \in S : y <= x

\* the score of a column that pairs query byte i with target byte j
PairScore(q, t, p, i, j) ==
    IF to_ascii_uppercase(q[i]) = to_ascii_uppercase(t[j])
    THEN p.match_score ELSE p.mismatch_score

\* the score of one gap column of direction dir after a column of kind prev:
\* a run of k gap columns costs gap_open + k * gap_extend
GapColumnScore(p, prev, dir) ==
    IF prev = dir THEN p.gap_extend ELSE p.gap_open + p.gap_extend

RECURSIVE BestContinuation(_, _, _, _, _, _)
\* the greatest score of the columns that can follow an alignment which has
\* consumed i query bytes and j target bytes and ended in a column of kind
\* prev: no column, or a pair, or a gap in the target, or a gap in the query
BestContinuation(q, t, p, i, j, prev) ==
    MaxOf({0}
        \cup (IF i < Len(q) /\ j < Len(t)
              THEN {PairScore(q, t, p, i + 1, j + 1)
                      + BestContinuation(q, t, p, i + 1, j + 1, TraceMatch)}
              ELSE {})
        \cup (IF i < Len(q)
              THEN {GapColumnScore(p, prev, TraceGapInTarget)
                      + BestContinuation(q, t, p, i + 1, j, TraceGapInTarget)}
              ELSE {})
        \cup (IF j < Len(t)
              THEN {GapColumnScore(p, prev, TraceGapInQuery)
                      + BestContinuation(q, t, p, i, j + 1, TraceGapInQuery)}
              ELSE {}))

\* the optimum over every start in the query and the target and every
\* alignment from there
OptimalLocalScore(q, t, p) ==
    MaxOf({BestContinuation(q, t, p, i, j, TraceNone) :
              i \in 0..Len(q), j \in 0..Len(t)})

\* C21: without a band, the best score of the fill, and the score of a
\* returned result, equal the optimum of the affine-gap local alignment
\* problem (match_score > 0, negative penalties)
C21_UnbandedScoreIsOptimal ==
    (Aligned /\ band_width = None /\ Len(query) > 0 /\ Len(target) > 0)
    => /\ BestScore = OptimalLocalScore(query, target, params)
       /\ IsSome(result) =>
              Unwrap(result).score = OptimalLocalScore(query, target, params)

\* an unbanded result whose optimum needs a gap and a mismatch-free path
C21_Witness ==
    /\ pc = "aligned" /\ band_width = None /\ IsSome(result)
    /\ Unwrap(result).gaps > 0
    /\ Unwrap(result).score = OptimalLocalScore(query, target, params)
    /\ Unwrap(result).score > params.match_score

-----------------------------------------------------------------------------
(* The path of the traceback and the score it is worth (SpecBand)            *)

RECURSIVE PathScoreFrom(_, _, _, _, _, _, _)
\* the score of the steps k.. of a traceback path: a Match step is worth the
\* pair score of its cell, a gap step gap_extend, and gap_open more when the
\* step before it was not a gap step of the same direction
PathScoreFrom(q, t, p, st, path, k, prev) ==
    IF k > Len(path) THEN 0
    ELSE LET op == st.trace[idx(Len(t) + 1, path[k][1], path[k][2])] IN
         (IF op = TraceMatch
          THEN PairScore(q, t, p, path[k][1], path[k][2])
          ELSE GapColumnScore(p, prev, op))
         + PathScoreFrom(q, t, p, st, path, k + 1, op)

\* the score of the path the traceback walks after the fill st
PathScore(q, t, p, st) ==
    PathScoreFrom(q, t, p, st, Traceback(q, t, st).path, 1, TraceNone)

\* the path of a call with band bw is worth the score of its result r
PathHasScore(bw, r) ==
    IsSome(r) =>
        /\ PathScore(query, target, params, Fill(query, target, params, bw))
               = Unwrap(r).score
        /\ Unwrap(r).score <=
               params.match_score * Unwrap(r).matches
               + params.mismatch_score * Unwrap(r).mismatches
               + params.gap_extend * Unwrap(r).gaps

\* C22: the path the traceback walks, scored as match_score per match step,
\* mismatch_score per mismatch step and gap_open + k * gap_extend per maximal
\* run of k gap steps in one direction, sums to the score of the result, for
\* the banded and for the unbanded call
C22_PathScoreIsResultScore ==
    /\ Aligned => PathHasScore(band_width, result)
    /\ pc = "unbanded" => PathHasScore(None, unbanded)

-----------------------------------------------------------------------------
(* The direction recorded for each cell (SpecFill)                           *)

\* the matrices after the fill of the state's call
Filled == Fill(query, target, params, band_width)

\* the inner loop has computed cell (i, j): it has assigned E there
Computed(st, i, j) == st.e[idx(Len(target) + 1, i, j)] # neg_inf

\* the diagonal term of cell (i, j)
DiagonalTerm(st, i, j) ==
    st.h[idx(Len(target) + 1, i - 1, j - 1)]
        + PairScore(query, target, params, i, j)

\* the direction of a cell by the order none, diagonal, gap in target, gap
\* in query
DirectionByOrder(st, i, j) ==
    IF st.h[idx(Len(target) + 1, i, j)] = 0 THEN TraceNone
    ELSE IF st.h[idx(Len(target) + 1, i, j)] = DiagonalTerm(st, i, j)
    THEN TraceMatch
    ELSE IF st.h[idx(Len(target) + 1, i, j)] = st.f[idx(Len(target) + 1, i, j)]
    THEN TraceGapInTarget
    ELSE TraceGapInQuery

\* C23: the direction recorded for a computed cell is none if H = 0,
\* otherwise diagonal if H equals the diagonal term, otherwise gap-in-target
\* if H equals F, otherwise gap-in-query, where H then equals E; and the
\* second call on the same inputs, the forward call of align_both_strands,
\* returns the result of the first
C23_TraceDirection ==
    /\ (Aligned /\ Len(query) > 0 /\ Len(target) > 0) =>
          \E st \in {Filled} :
              \A i \in 1..Len(query), j \in 1..Len(target) :
                  Computed(st, i, j) =>
                      /\ st.trace[idx(Len(target) + 1, i, j)]
                             = DirectionByOrder(st, i, j)
                      /\ st.trace[idx(Len(target) + 1, i, j)] = TraceGapInQuery
                             => st.h[idx(Len(target) + 1, i, j)]
                                    = st.e[idx(Len(target) + 1, i, j)]
    /\ (pc = "stranded" /\ IsSome(stranded) /\ ~Unwrap(stranded)[2])
          => stranded = Some(<<Unwrap(result), FALSE>>)

\* a fill with a cell where the diagonal term ties with F above zero, and a
\* cell where F ties with E above the diagonal term
C23_Witness ==
    /\ pc = "aligned" /\ Len(query) > 0 /\ Len(target) > 0
    /\ \E st \in {Filled} :
          /\ \E i \in 1..Len(query), j \in 1..Len(target) :
                /\ Computed(st, i, j)
                /\ st.h[idx(Len(target) + 1, i, j)] > 0
                /\ DiagonalTerm(st, i, j) = st.f[idx(Len(target) + 1, i, j)]
                /\ st.trace[idx(Len(target) + 1, i, j)] = TraceMatch
          /\ \E i \in 1..Len(query), j \in 1..Len(target) :
                /\ Computed(st, i, j)
                /\ st.f[idx(Len(target) + 1, i, j)] = st.e[idx(Len(target) + 1, i, j)]
                /\ DiagonalTerm(st, i, j) < st.f[idx(Len(target) + 1, i, j)]
                /\ st.trace[idx(Len(target) + 1, i, j)] = TraceGapInTarget

-----------------------------------------------------------------------------
(* The cells a banded call computes (SpecShort)                              *)

\* c_i: i scaled by |target| / |query|, rounded down, when the target is at
\* least as long as the query, else i
ScaledCenter(i) ==
    IF Len(target) >= Len(query)
    THEN CHOOSE c \in 0..Len(target) :
             c * Len(query) <= i * Len(target)
             /\ i * Len(target) < (c + 1) * Len(query)
    ELSE i

\* column j of row i lies in the band of width w
InBandColumns(i, j, w) ==
    /\ Max2(1, ScaledCenter(i) - w) <= j
    /\ j <= Min2(Len(target), ScaledCenter(i) + w)

\* C24: with band_width = Some(w), row i computes exactly the columns j with
\* max(1, c_i - w) <= j <= min(|target|, c_i + w); every other cell keeps
\* H = 0 and direction none; and the end cell of a result with a positive
\* score lies in the band: |target_end - c_(query_end)| <= w
C24_BandColumns ==
    (Aligned /\ IsSome(band_width)) =>
        \E st \in {Filled} :
            /\ \A i \in 1..Len(query), j \in 1..Len(target) :
                  /\ Computed(st, i, j) <=> InBandColumns(i, j, Unwrap(band_width))
                  /\ ~InBandColumns(i, j, Unwrap(band_width)) =>
                        /\ st.h[idx(Len(target) + 1, i, j)] = 0
                        /\ st.trace[idx(Len(target) + 1, i, j)] = TraceNone
            /\ (IsSome(result) /\ Unwrap(result).score > 0) =>
                  InBandColumns(Unwrap(result).query_end,
                                Unwrap(result).target_end, Unwrap(band_width))

\* a banded call on a target longer than the query whose result ends on the
\* last column of its row's band, with cells of that row left out
C24_Witness ==
    /\ pc = "aligned" /\ band_width = Some(1) /\ Len(target) > Len(query)
    /\ IsSome(result) /\ Unwrap(result).score > 0
    /\ Unwrap(result).target_end = ScaledCenter(Unwrap(result).query_end) + 1
    /\ ScaledCenter(Unwrap(result).query_end) # Unwrap(result).query_end
    /\ Unwrap(result).target_end < Len(target)

-----------------------------------------------------------------------------
(* Where the traceback starts and stops (SpecShort)                          *)

\* cell b is one step back from cell a: diagonal, up or left
StepBack(a, b) ==
    \/ b = <<a[1] - 1, a[2] - 1>>
    \/ b = <<a[1] - 1, a[2]>>
    \/ b = <<a[1], a[2] - 1>>

\* the cells of path followed by the cell the walk stopped at
WalkedCells(tb) == Append(tb.path, <<tb.ci, tb.cj>>)

\* the traceback of the state's banded call
BandedTraceback == Traceback(query, target, Filled)

\* C25: the traceback of a returned result takes at most query_end +
\* target_end steps, starts at the maximum cell, which is reported as
\* (query_end, target_end), moves one step back at a time and stops at a
\* cell whose H is 0, which is reported as (query_start, target_start)
C25_TracebackStopsAtZero ==
    (Aligned /\ IsSome(result)) =>
        \E st \in {Filled} : \E tb \in {BandedTraceback} :
            /\ Len(tb.path) <= Unwrap(result).query_end + Unwrap(result).target_end
            /\ WalkedCells(tb)[1]
                   = <<Unwrap(result).query_end, Unwrap(result).target_end>>
            /\ WalkedCells(tb)[Len(tb.path) + 1]
                   = <<Unwrap(result).query_start, Unwrap(result).target_start>>
            /\ \A k \in 1..Len(tb.path) :
                   StepBack(WalkedCells(tb)[k], WalkedCells(tb)[k + 1])
            /\ \A k \in 1..Len(tb.path) :
                   st.h[idx(Len(target) + 1, tb.path[k][1], tb.path[k][2])] > 0
            /\ st.h[idx(Len(target) + 1, Unwrap(result).query_start,
                        Unwrap(result).target_start)] = 0
            /\ st.h[idx(Len(target) + 1, Unwrap(result).query_end,
                        Unwrap(result).target_end)] = Unwrap(result).score
            /\ \A i \in 0..Len(query), j \in 0..Len(target) :
                   st.h[idx(Len(target) + 1, i, j)] <= Unwrap(result).score

\* a banded traceback that stopped inside the matrix, at a cell the band
\* left out
C25_Witness ==
    /\ pc = "aligned" /\ IsSome(band_width) /\ IsSome(result)
    /\ Unwrap(result).query_start > 0 /\ Unwrap(result).target_start > 0
    /\ ~Computed(Filled, Unwrap(result).query_start, Unwrap(result).target_start)
    /\ Unwrap(result).matches > 0

-----------------------------------------------------------------------------
(* The banded call against the unbanded one (SpecShort)                      *)

\* the matrices after the fill of the unbanded call
FilledUnbanded == Fill(query, target, params, None)

\* C26: the best score of the banded fill is at most the best score of the
\* unbanded fill, cell by cell and for the maximum, so when the banded call
\* returns a result the unbanded call with the same min_score returns one
\* with a score at least as large
C26_BandOnlyLosesScore ==
    pc = "unbanded" =>
        /\ \E b \in {Filled} : \E u \in {FilledUnbanded} :
              /\ b.max_score <= u.max_score
              /\ \A k \in DOMAIN b.h : b.h[k] <= u.h[k]
        /\ IsSome(result) =>
              /\ IsSome(unbanded)
              /\ Unwrap(result).score <= Unwrap(unbanded).score

\* the band loses the whole result: the banded call returns nothing and the
\* unbanded call returns a result
C26_Witness ==
    /\ pc = "unbanded" /\ result = None /\ IsSome(unbanded)
    /\ Unwrap(unbanded).gaps > 0

-----------------------------------------------------------------------------
(* Spans against counts in a result (SpecShort)                              *)

\* spans and counts of the result r, if there is one, agree
SpansAgree(r) ==
    IsSome(r) =>
        \E a \in {Unwrap(r)} :
            /\ (a.query_end - a.query_start) + (a.target_end - a.target_start)
                   = 2 * (a.matches + a.mismatches) + a.gaps
            /\ a.matches + a.mismatches <= a.query_end - a.query_start
            /\ a.query_end - a.query_start <= a.alignment_length
            /\ a.matches + a.mismatches <= a.target_end - a.target_start
            /\ a.target_end - a.target_start <= a.alignment_length

\* C27: in a returned result, banded or not, (query_end - query_start) +
\* (target_end - target_start) = 2 * (matches + mismatches) + gaps, and each
\* span is at least matches + mismatches and at most alignment_length
C27_SpansAgreeWithCounts ==
    /\ Aligned => SpansAgree(result)
    /\ pc = "unbanded" => SpansAgree(unbanded)

\* an unbanded result that starts inside the target and holds a gap, so that
\* its spans differ
C27_Witness ==
    /\ pc = "unbanded" /\ IsSome(unbanded)
    /\ Unwrap(unbanded).gaps > 0
    /\ Unwrap(unbanded).target_start > 0
    /\ Unwrap(unbanded).query_end - Unwrap(unbanded).query_start
           # Unwrap(unbanded).target_end - Unwrap(unbanded).target_start

-----------------------------------------------------------------------------
(* Hits per component (SpecAnnotate)                                         *)

\* C28: annotate returns at most one hit per component of the list, also
\* when the component occurs several times in the target or on both strands;
\* the vector handed to resolve_overlaps holds at most one hit per component
\* too, and the output is no longer than the list of DNA components
C28_OneHitPerComponent ==
    pc = "annotated" =>
        /\ \A k \in 1..Len(components) :
              /\ Cardinality(HitsOf(hits, k)) <= 1
              /\ Cardinality(HitsOf(candidates, k)) <= 1
        /\ Len(hits) <= Len(DnaComponents)
        /\ Len(hits) <= Len(candidates)

\* a component with two copies in the target and one in its reverse
\* complement, and one hit
C28_Witness ==
    /\ pc = "annotated" /\ Len(components) = 1
    /\ Cardinality(Occurrences(components[1].sequence, target)) >= 2
    /\ Occurrences(components[1].sequence, rc_bytes(target)) # {}
    /\ Len(hits) = 1

-----------------------------------------------------------------------------
(* Which of several maximum cells is reported (SpecFill)                     *)

\* the cells of the filled matrices that hold the score sc
CellsWithScore(st, sc) ==
    {c \in (1..Len(query)) \X (1..Len(target)) :
        st.h[idx(Len(target) + 1, c[1], c[2])] = sc}

\* cell a comes before cell b in the order of the fill: by row, then column
RowMajorBefore(a, b) == a[1] < b[1] \/ (a[1] = b[1] /\ a[2] <= b[2])

\* C29: the end cell of a result with a positive score is the first cell in
\* row-major order among those that hold the maximum score; without a band,
\* a query with several full-length copies in the target is reported at the
\* leftmost copy
C29_FirstMaximumReported ==
    (Aligned /\ IsSome(result) /\ Unwrap(result).score > 0) =>
        /\ \E st \in {Filled} :
              \A c \in CellsWithScore(st, Unwrap(result).score) :
                  RowMajorBefore(<<Unwrap(result).query_end,
                                   Unwrap(result).target_end>>, c)
        /\ (band_width = None /\ Occurrences(query, target) # {}) =>
              /\ \A k \in Occurrences(query, target) :
                     Unwrap(result).target_start <= k
              /\ Unwrap(result).target_start \in Occurrences(query, target)
              /\ Unwrap(result).target_end
                     = Unwrap(result).target_start + Len(query)

\* an unbanded call on a target with two copies of a query of two bases, and
\* a maximum cell after the reported one
C29_Witness ==
    /\ pc = "aligned" /\ band_width = None /\ IsSome(result)
    /\ Len(query) = 2
    /\ Cardinality(Occurrences(query, target)) = 2
    /\ Unwrap(result).target_start = 0
    /\ Cardinality(CellsWithScore(Filled, Unwrap(result).score)) = 2

-----------------------------------------------------------------------------
(* What resolve_overlaps keeps of its input (SpecResolve)                    *)

\* the elements of a sequence
Elements(hs) == {hs[x] : x \in 1..Len(hs)}

\* the candidate that comes first in the stable score-descending order: the
\* greatest score, and among those the component pushed first
IsFirstCandidate(c) ==
    /\ c \in Elements(candidates)
    /\ \A d \in Elements(candidates) :
          \/ d.alignment_score < c.alignment_score
          \/ (d.alignment_score = c.alignment_score
                 /\ c.component_id <= d.component_id)

\* C30: the first candidate in the score-descending order is accepted, and
\* the output holds hits of the input only, each once and with its fields
\* unchanged; so with at least one candidate the output is not empty and
\* holds a hit whose alignment_score is the maximum over the candidates
C30_FirstCandidateAccepted ==
    pc = "resolved" =>
        /\ Elements(hits) \subseteq Elements(candidates)
        /\ Cardinality(Elements(hits)) = Len(hits)
        /\ \A c \in Elements(candidates) : IsFirstCandidate(c) => c \in Elements(hits)
        /\ candidates # <<>> =>
              /\ hits # <<>>
              /\ candidates[1] \in Elements(hits)
              /\ \E h \in Elements(hits) :
                    \A c \in Elements(candidates) :
                        c.alignment_score <= h.alignment_score

\* three candidates of which the best is kept, one is dropped, and the best
\* is not the first of the output
C30_Witness ==
    /\ pc = "resolved" /\ Len(candidates) = 3 /\ Len(hits) = 2
    /\ candidates[1].alignment_score > candidates[2].alignment_score
    /\ hits[2] = candidates[1]
    /\ candidates[1].component_id = 3

====
